---- MODULE Spec2Model ----
(***************************************************************************)
(* Model of the stylelint ignore-list maintenance scripts:                 *)
(*   compressStylelintIgnore.js  (Manifest Compactor)                      *)
(*   deleteStylelintIgnore.js    (Manifest Eliminator)                     *)
(* Text is a sequence of tokens; the token "\n" is the line separator.      *)
(* A JS Map is a sequence of <<key, value>> entries in insertion order and *)
(* a JS Set is a duplicate-free sequence in insertion order.               *)
(***************************************************************************)
EXTENDS Integers, Sequences, FiniteSets, TLC

VARIABLES
    \* ---- Planner / Writer on one file (the body of the per-file loop) ----
    warningsArray,                \* file.warnings of the file being annotated
    sourceCodeFile,               \* the LineBuffer (array of lines)
    collectionFilesErrors,        \* Map "line|endLine" -> Set of rules
    sortedEntriesFilesErrors,     \* Array of [key, rules] sorted by start line
    entryIndex,                   \* position of the for-of loop over the entries
    counterInsertionLines,        \* lines spliced in so far
    useStylelintDisableComments,  \* TRUE: block mode, FALSE: single-line mode
    fileText,                     \* text of that file on disk
    wpc,                          \* position in the per-file body
    \* ---- the scripts ----
    pc,                           \* position in the running script
    manifestName,                 \* name the manifest has on disk, or "none"
    manifestContent,              \* text of the manifest
    manifestAtStart,              \* text of the manifest when the script started
    fileContent,                  \* text of every style file
    lintWarnings,                 \* what the lint engine reports per file
    stylelintIgnoreCollection,    \* compactor: Map line -> Set of files
    stylelintIgnoreFiles,         \* eliminator: Set of files
    stylelintResults,             \* results of the last lint call
    todoLines,                    \* Map keys the running for-of has yet to visit
    todoFiles,                    \* files / results the running for-of has yet to visit
    batch,                        \* files handed to the running per-file loop
    inspected,                    \* files whose first line the filter has read
    annotated,                    \* files rewritten by the eliminator
    failedAt,                     \* <<loop, file>> of a failed per-file read/write
    failures,                     \* calls that have failed in this run
    errorLog                      \* origins of the console.error messages

writerVars == <<warningsArray, sourceCodeFile, collectionFilesErrors,
                sortedEntriesFilesErrors, entryIndex, counterInsertionLines,
                useStylelintDisableComments, fileText, wpc>>

scriptVars == <<pc, manifestName, manifestContent, manifestAtStart, fileContent,
                lintWarnings, stylelintIgnoreCollection, stylelintIgnoreFiles,
                stylelintResults, todoLines, todoFiles, batch, inspected,
                annotated, failedAt, failures, errorLog>>

vars == <<warningsArray, sourceCodeFile, collectionFilesErrors,
          sortedEntriesFilesErrors, entryIndex, counterInsertionLines,
          useStylelintDisableComments, fileText, wpc,
          pc, manifestName, manifestContent, manifestAtStart, fileContent,
          lintWarnings, stylelintIgnoreCollection, stylelintIgnoreFiles,
          stylelintResults, todoLines, todoFiles, batch, inspected,
          annotated, failedAt, failures, errorLog>>

----------------------------------------------------------------------------
\* Bounds of the model

\* number of lines of the file handed to the Planner / Writer
MaxLines == 3

\* longest warning list the lint engine reports for one file
MaxWarnings == 2

\* most lines a manifest has when a script starts
MaxManifestLines == 2

\* rule identifiers the lint engine reports
Rules == {"a", "b"}

----------------------------------------------------------------------------
\* JavaScript building blocks

Range(s) == {s[i] : i \in DOMAIN s}

Max(a, b) == IF a > b THEN a ELSE b

NL == "\n"

\* String.prototype.split(sep) with a one-token separator
RECURSIVE SplitFrom(_, _, _, _)
SplitFrom(s, sep, i, piece) ==
    IF i > Len(s) THEN <<piece>>
    ELSE IF s[i] = sep THEN <<piece>> \o SplitFrom(s, sep, i + 1, <<>>)
    ELSE SplitFrom(s, sep, i + 1, Append(piece, s[i]))

Split(s, sep) == SplitFrom(s, sep, 1, <<>>)

\* Array.prototype.join(sep) with a one-token separator
RECURSIVE Join(_, _)
Join(arr, sep) ==
    IF Len(arr) = 0 THEN <<>>
    ELSE IF Len(arr) = 1 THEN arr[1]
    ELSE arr[1] \o <<sep>> \o Join(Tail(arr), sep)

DigitChars == <<"0", "1", "2", "3", "4", "5", "6", "7", "8", "9">>

\* `${n}` of a non-negative integer
RECURSIVE NumberToString(_)
NumberToString(n) ==
    IF n < 10 THEN <<DigitChars[n + 1]>>
    ELSE NumberToString(n \div 10) \o <<DigitChars[(n % 10) + 1]>>

DigitValue(c) == CHOOSE d \in 0..9 : DigitChars[d + 1] = c

\* Number(s) of a string of decimal digits
RECURSIVE StringToNumber(_)
StringToNumber(s) ==
    IF Len(s) = 0 THEN 0
    ELSE 10 * StringToNumber(SubSeq(s, 1, Len(s) - 1)) + DigitValue(s[Len(s)])

\* Array.prototype.splice(start, 0, item)
Splice(arr, start, item) ==
    LET len == Len(arr)
        at  == IF start > len THEN len
               ELSE IF start < 0 THEN Max(len + start, 0)
               ELSE start
    IN  SubSeq(arr, 1, at) \o <<item>> \o SubSeq(arr, at + 1, len)

MapHas(m, k) == \E i \in DOMAIN m : m[i][1] = k

MapGet(m, k) == m[CHOOSE i \in DOMAIN m : m[i][1] = k][2]

MapSet(m, k, v) ==
    IF MapHas(m, k)
    THEN [i \in DOMAIN m |-> IF m[i][1] = k THEN <<k, v>> ELSE m[i]]
    ELSE Append(m, <<k, v>>)

MapDelete(m, k) == SelectSeq(m, LAMBDA e : e[1] # k)

SetAdd(s, x) == IF x \in Range(s) THEN s ELSE Append(s, x)

----------------------------------------------------------------------------
\* Suppression Planner

TemplateKey(line, endLine) ==
    NumberToString(line) \o <<"|">> \o NumberToString(endLine)

KeyStartLine(key) == StringToNumber(Split(key, "|")[1])

KeyEndLine(key) == StringToNumber(Split(key, "|")[2])

\* the severity test left out: every warning is planned
CollectWarningAnySeverity(acc, w) ==
    LET key  == TemplateKey(w.line, w.endLine)
        acc1 == IF ~MapHas(acc, key) THEN MapSet(acc, key, <<>>) ELSE acc
    IN  MapSet(acc1, key, SetAdd(MapGet(acc1, key), w.rule))

CollectWarning(acc, w) ==
    IF w.severity # "error" THEN acc
    ELSE LET key  == TemplateKey(w.line, w.endLine)
             acc1 == IF ~MapHas(acc, key) THEN MapSet(acc, key, <<>>) ELSE acc
         IN  MapSet(acc1, key, SetAdd(MapGet(acc1, key), w.rule))

RECURSIVE ReduceWarnings(_, _)
ReduceWarnings(acc, ws) ==
    IF Len(ws) = 0 THEN acc
    ELSE ReduceWarnings(CollectWarning(acc, Head(ws)), Tail(ws))

helperCollectionFilesErrorsFromWarningsArray(ws) == ReduceWarnings(<<>>, ws)

CompareEntries(array1, array2) == KeyStartLine(array1[1]) - KeyStartLine(array2[1])

\* Array.prototype.sort is stable: an entry goes behind every entry that does
\* not compare greater than it
RECURSIVE InsertEntry(_, _)
InsertEntry(sorted, e) ==
    IF Len(sorted) = 0 THEN <<e>>
    ELSE IF CompareEntries(Head(sorted), e) <= 0
         THEN <<Head(sorted)>> \o InsertEntry(Tail(sorted), e)
         ELSE <<e>> \o sorted

RECURSIVE SortEntries(_)
SortEntries(arr) ==
    IF Len(arr) = 0 THEN <<>>
    ELSE InsertEntry(SortEntries(SubSeq(arr, 1, Len(arr) - 1)), arr[Len(arr)])

\* the sort left out: the entries stay in Map insertion order
EntriesInInsertionOrder(collection) == collection

helperSortedEntiresFromCollectionFilesErrors(collection) == SortEntries(collection)

helperCommentDisableFromArrayRules(rules, commentType) ==
    <<"/*", " ", "stylelint-", commentType, " ">> \o Join([i \in DOMAIN rules |-> <<rules[i]>>], ",") \o <<" ", "*/">>

----------------------------------------------------------------------------
\* Suppression Writer

helperReadSourceFile(text) == Split(text, NL)

helperWriteSourceFile(data) == Join(data, NL)

InsertBlockComments(buffer, entry, counter) ==
    LET startLine == KeyStartLine(entry[1])
        endLine   == KeyEndLine(entry[1])
        indexDisableComment == startLine - 1 + counter
        disableComment == helperCommentDisableFromArrayRules(entry[2], "disable")
        indexEnableComment == endLine + 1 + counter
        enableComment == helperCommentDisableFromArrayRules(entry[2], "enable")
    IN  Splice(Splice(buffer, indexDisableComment, disableComment),
               indexEnableComment, enableComment)

InsertNextLineComment(buffer, entry, counter) ==
    LET startLine == KeyStartLine(entry[1])
        indexDisableNextLineComment == startLine - 1 + counter
        disableNextLineComment ==
            helperCommentDisableFromArrayRules(entry[2], "disable-next-line")
    IN  Splice(buffer, indexDisableNextLineComment, disableNextLineComment)

----------------------------------------------------------------------------
\* The per-file body of the annotation loop, on one file and one warning list

\* text of the k-th line of a style file before annotation
SourceLine(k) == <<"L">> \o NumberToString(k)

OriginalLines == [k \in 1..MaxLines |-> SourceLine(k)]

\* the lint engine reports line ranges inside the file
WarningUniverse ==
    {w \in [severity : {"error", "warning"}, line : 1..MaxLines,
            endLine : 1..MaxLines, rule : Rules] : w.line <= w.endLine}

WarningLists == UNION {[1..n -> WarningUniverse] : n \in 0..MaxWarnings}

ScriptIdle ==
    /\ pc = "idle"
    /\ manifestName = ".stylelintignore"
    /\ manifestContent = <<>>
    /\ manifestAtStart = <<>>
    /\ fileContent = <<>>
    /\ lintWarnings = <<>>
    /\ stylelintIgnoreCollection = <<>>
    /\ stylelintIgnoreFiles = <<>>
    /\ stylelintResults = <<>>
    /\ todoLines = <<>>
    /\ todoFiles = <<>>
    /\ batch = <<>>
    /\ inspected = {}
    /\ annotated = {}
    /\ failedAt = <<>>
    /\ failures = {}
    /\ errorLog = {}

InitWriter ==
    /\ warningsArray \in WarningLists
    /\ useStylelintDisableComments \in BOOLEAN
    /\ fileText = Join(OriginalLines, NL)
    /\ sourceCodeFile = <<>>
    /\ collectionFilesErrors = <<>>
    /\ sortedEntriesFilesErrors = <<>>
    /\ entryIndex = 0
    /\ counterInsertionLines = 0
    /\ wpc = "read"
    /\ ScriptIdle

ReadSource ==
    /\ wpc = "read"
    /\ sourceCodeFile' = helperReadSourceFile(fileText)
    /\ wpc' = "plan"
    /\ UNCHANGED <<warningsArray, collectionFilesErrors, sortedEntriesFilesErrors,
                   entryIndex, counterInsertionLines,
                   useStylelintDisableComments, fileText>>
    /\ UNCHANGED scriptVars

PlanSuppressions ==
    /\ wpc = "plan"
    /\ collectionFilesErrors' =
           helperCollectionFilesErrorsFromWarningsArray(warningsArray)
    /\ sortedEntriesFilesErrors' =
           helperSortedEntiresFromCollectionFilesErrors(collectionFilesErrors')
    /\ counterInsertionLines' = 0
    /\ entryIndex' = 1
    /\ wpc' = "insert"
    /\ UNCHANGED <<warningsArray, sourceCodeFile, useStylelintDisableComments,
                   fileText>>
    /\ UNCHANGED scriptVars

InsertBlock ==
    /\ wpc = "insert"
    /\ entryIndex <= Len(sortedEntriesFilesErrors)
    /\ useStylelintDisableComments
    /\ sourceCodeFile' = InsertBlockComments(sourceCodeFile,
           sortedEntriesFilesErrors[entryIndex], counterInsertionLines)
    /\ counterInsertionLines' = counterInsertionLines + 2
    /\ entryIndex' = entryIndex + 1
    /\ UNCHANGED <<warningsArray, collectionFilesErrors, sortedEntriesFilesErrors,
                   useStylelintDisableComments, fileText, wpc>>
    /\ UNCHANGED scriptVars

InsertNextLine ==
    /\ wpc = "insert"
    /\ entryIndex <= Len(sortedEntriesFilesErrors)
    /\ ~useStylelintDisableComments
    /\ sourceCodeFile' = InsertNextLineComment(sourceCodeFile,
           sortedEntriesFilesErrors[entryIndex], counterInsertionLines)
    /\ counterInsertionLines' = counterInsertionLines + 1
    /\ entryIndex' = entryIndex + 1
    /\ UNCHANGED <<warningsArray, collectionFilesErrors, sortedEntriesFilesErrors,
                   useStylelintDisableComments, fileText, wpc>>
    /\ UNCHANGED scriptVars

WriteSource ==
    /\ wpc = "insert"
    /\ entryIndex > Len(sortedEntriesFilesErrors)
    /\ fileText' = helperWriteSourceFile(sourceCodeFile)
    /\ wpc' = "written"
    /\ UNCHANGED <<warningsArray, sourceCodeFile, collectionFilesErrors,
                   sortedEntriesFilesErrors, entryIndex, counterInsertionLines,
                   useStylelintDisableComments>>
    /\ UNCHANGED scriptVars

NextWriter ==
    \/ ReadSource
    \/ PlanSuppressions
    \/ InsertBlock
    \/ InsertNextLine
    \/ WriteSource

SpecWriter == InitWriter /\ [][NextWriter]_vars

----------------------------------------------------------------------------
\* Collaborators: the file system, glob and the lint engine

Css == ".css"

\* the style files on disk, in the order glob lists them
StyleFiles == << <<"a", Css>>, <<"d/", "b", Css>>, <<"d/", "c", Css>> >>

FileSet == Range(StyleFiles)

\* lines a manifest is made of: an empty line, a comment behind a blank, a
\* single file, a directory, and a file that is not on disk
ManifestLineUniverse ==
    { <<>>, <<" ", "#", "d/">>, <<"a", Css>>, <<"d/">>, <<"z", Css>> }

ManifestLineLists ==
    UNION {[1..n -> ManifestLineUniverse] : n \in 0..MaxManifestLines}

\* text of a manifest whose lines each end with a newline
RECURSIVE ManifestText(_)
ManifestText(lines) ==
    IF Len(lines) = 0 THEN <<>>
    ELSE Head(lines) \o <<NL>> \o ManifestText(Tail(lines))

BlanketDisableLine == <<"/*", " ", "stylelint-", "disable", " ", "*/">>

\* a style file is plain, or opens with a blank line and a blanket disable
StyleTexts ==
    { Join(OriginalLines, NL),
      <<" ", NL>> \o BlanketDisableLine \o <<NL>> \o Join(OriginalLines, NL) }

\* what the lint engine finds in a file: nothing, or two errors
LintChoices ==
    { <<>>,
      << [severity |-> "error", line |-> 1, endLine |-> 1, rule |-> "a"],
         [severity |-> "error", line |-> 2, endLine |-> 2, rule |-> "b"] >> }

EndsWith(s, suffix) == Len(s) > 0 /\ s[Len(s)] = suffix

IsPrefix(p, s) == Len(p) <= Len(s) /\ SubSeq(s, 1, Len(p)) = p

\* String.prototype.trim
RECURSIVE Trim(_)
Trim(s) ==
    IF Len(s) = 0 THEN s
    ELSE IF Head(s) = " " THEN Trim(Tail(s))
    ELSE IF s[Len(s)] = " " THEN Trim(SubSeq(s, 1, Len(s) - 1))
    ELSE s

RecursiveCss == <<"**/", "*", Css>>

\* glob.sync: a pattern ending in **/*.css lists the style files below its
\* prefix, a pattern without wildcard lists the file of that name if it exists
Glob(pattern) ==
    IF Len(pattern) >= 3 /\ SubSeq(pattern, Len(pattern) - 2, Len(pattern)) = RecursiveCss
    THEN LET prefix == SubSeq(pattern, 1, Len(pattern) - 3)
         IN  SelectSeq(StyleFiles, LAMBDA f : IsPrefix(prefix, f) /\ EndsWith(f, Css))
    ELSE SelectSeq(StyleFiles, LAMBDA f : f = pattern)

\* the lines readline hands out: no line for the text behind the last newline
\* when that text is empty
ReadLines(text) ==
    LET pieces == Split(text, NL)
    IN  IF pieces[Len(pieces)] = <<>> THEN SubSeq(pieces, 1, Len(pieces) - 1)
        ELSE pieces

HasError(ws) == \E i \in DOMAIN ws : ws[i].severity = "error"

\* stylelint.lint(...).results: one result per file, in the order of the files
Lint(files) ==
    [i \in DOMAIN files |->
        [source |-> files[i], errored |-> HasError(lintWarnings[files[i]]),
         warnings |-> lintWarnings[files[i]]]]

\* JavaScript values a Set is asked to delete
JsString(x) == [type |-> "string", value |-> x]

JsObject(x) == [type |-> "object", value |-> x]

\* Set.prototype.delete on a Set of strings: an object equals no string
SetDelete(set, v) ==
    IF v.type = "string" THEN SelectSeq(set, LAMBDA x : x # v.value) ELSE set

----------------------------------------------------------------------------
\* Ignore-Manifest Reader and Disable-Comment Filter

IsEmptyLine(line) == Len(Trim(line)) = 0

IsCommentLine(line) == Len(Trim(line)) # 0 /\ Trim(line)[1] = "#"

PatternOfLine(line) ==
    LET isNotSingleFileLine == ~EndsWith(line, Css)
    IN  IF isNotSingleFileLine THEN line \o RecursiveCss ELSE line

CollectionReadLine(collection, line) ==
    IF IsEmptyLine(line) \/ IsCommentLine(line) THEN collection
    ELSE LET files == Glob(PatternOfLine(line))
         IN  IF Len(files) = 0 THEN collection
             ELSE MapSet(collection, line, files)

RECURSIVE CollectionReadLines(_, _)
CollectionReadLines(collection, lines) ==
    IF Len(lines) = 0 THEN collection
    ELSE CollectionReadLines(CollectionReadLine(collection, Head(lines)), Tail(lines))

\* compressStylelintIgnore.js: Map line -> Set of files
getStylelintIgnoreCollection(text) == CollectionReadLines(<<>>, ReadLines(text))

RECURSIVE SetAddAll(_, _)
SetAddAll(set, xs) ==
    IF Len(xs) = 0 THEN set ELSE SetAddAll(SetAdd(set, Head(xs)), Tail(xs))

FilesReadLine(set, line) ==
    IF IsEmptyLine(line) \/ IsCommentLine(line) THEN set
    ELSE LET files == Glob(PatternOfLine(line))
         IN  IF Len(files) = 0 THEN set ELSE SetAddAll(set, files)

RECURSIVE FilesReadLines(_, _)
FilesReadLines(set, lines) ==
    IF Len(lines) = 0 THEN set
    ELSE FilesReadLines(FilesReadLine(set, Head(lines)), Tail(lines))

\* deleteStylelintIgnore.js: Set of files
getStylelintIgnoreFiles(text) == FilesReadLines(<<>>, ReadLines(text))

\* /^\/\*\s*stylelint-disable\s*\*\/$/
MatchesBlanketDisable(t) ==
    \E i, j \in DOMAIN t :
        /\ t[1] = "/*"
        /\ \A k \in 2..(i - 1) : t[k] = " "
        /\ i > 1 /\ i + 1 < j
        /\ t[i] = "stylelint-" /\ t[i + 1] = "disable"
        /\ \A k \in (i + 2)..(j - 1) : t[k] = " "
        /\ t[j] = "*/" /\ j = Len(t)

\* the first line that is not blank decides
RECURSIVE SkipFileLines(_)
SkipFileLines(lines) ==
    IF Len(lines) = 0 THEN FALSE
    ELSE IF Trim(Head(lines)) = <<>> THEN SkipFileLines(Tail(lines))
    ELSE MatchesBlanketDisable(Trim(Head(lines)))

SkipFile(text) == SkipFileLines(ReadLines(text))

----------------------------------------------------------------------------
\* Manifest Compactor (compressStylelintIgnore.js)

RECURSIVE DeleteFilesWithoutErrors(_, _)
DeleteFilesWithoutErrors(files, results) ==
    IF Len(results) = 0 THEN files
    ELSE LET file == Head(results)
             isFileNotContainError == ~file.errored
         IN  DeleteFilesWithoutErrors(
                 IF isFileNotContainError THEN SetDelete(files, JsObject(file)) ELSE files,
                 Tail(results))

\* the newline behind every line left out
RECURSIVE ContentWithoutNewlines(_)
ContentWithoutNewlines(collection) ==
    IF Len(collection) = 0 THEN <<>>
    ELSE (IF Len(Head(collection)[2]) # 0 THEN Head(collection)[1] ELSE <<>>)
             \o ContentWithoutNewlines(Tail(collection))

RECURSIVE NewStylelintIgnoreContent(_)
NewStylelintIgnoreContent(collection) ==
    IF Len(collection) = 0 THEN <<>>
    ELSE (IF Len(Head(collection)[2]) # 0 THEN Head(collection)[1] \o <<NL>> ELSE <<>>)
             \o NewStylelintIgnoreContent(Tail(collection))

WriterIdle ==
    /\ warningsArray = <<>>
    /\ useStylelintDisableComments = FALSE
    /\ fileText = <<>>
    /\ sourceCodeFile = <<>>
    /\ collectionFilesErrors = <<>>
    /\ sortedEntriesFilesErrors = <<>>
    /\ entryIndex = 0
    /\ counterInsertionLines = 0
    /\ wpc = "idle"

InitScript ==
    /\ \/ /\ manifestName = ".stylelintignore"
          /\ \E lines \in ManifestLineLists : manifestContent = ManifestText(lines)
       \/ /\ manifestName = "none"
          /\ manifestContent = <<>>
    /\ manifestAtStart = manifestContent
    /\ fileContent \in [FileSet -> StyleTexts]
    /\ lintWarnings \in [FileSet -> LintChoices]
    /\ stylelintIgnoreCollection = <<>>
    /\ stylelintIgnoreFiles = <<>>
    /\ stylelintResults = <<>>
    /\ todoLines = <<>>
    /\ todoFiles = <<>>
    /\ batch = <<>>
    /\ inspected = {}
    /\ annotated = {}
    /\ failedAt = <<>>
    /\ failures = {}
    /\ errorLog = {}
    /\ WriterIdle

InitCompress == InitScript /\ pc = "c:measure"

\* determinateSizeAndLengthFile answers undefined for a missing file and the
\* destructuring of its answer throws
CompressMeasure ==
    /\ pc = "c:measure"
    /\ IF manifestName = ".stylelintignore"
       THEN /\ pc' = "c:config"
            /\ UNCHANGED <<errorLog, failures>>
       ELSE /\ pc' = "crashed"
            /\ errorLog' = errorLog \cup {"determinateSizeAndLengthFile"}
            /\ failures' = failures \cup {"stat"}
    /\ UNCHANGED <<manifestName, manifestContent, manifestAtStart, fileContent,
                   lintWarnings, stylelintIgnoreCollection, stylelintIgnoreFiles,
                   stylelintResults, todoLines, todoFiles, batch, inspected,
                   annotated, failedAt>>
    /\ UNCHANGED writerVars

\* a config that cannot be read: the catch block calls e.message(), which throws
CompressReadConfig ==
    /\ pc = "c:config"
    /\ \E ok \in BOOLEAN :
        IF ok THEN /\ pc' = "c:read"
                   /\ UNCHANGED failures
        ELSE /\ pc' = "crashed"
             /\ failures' = failures \cup {"config"}
    /\ UNCHANGED <<manifestName, manifestContent, manifestAtStart, fileContent,
                   lintWarnings, stylelintIgnoreCollection, stylelintIgnoreFiles,
                   stylelintResults, todoLines, todoFiles, batch, inspected,
                   annotated, failedAt, errorLog>>
    /\ UNCHANGED writerVars

FilesOfLine(collection, line) == IF MapHas(collection, line) THEN MapGet(collection, line) ELSE <<>>

Keys(collection) == [i \in DOMAIN collection |-> collection[i][1]]

RECURSIVE AllFiles(_)
AllFiles(collection) ==
    IF Len(collection) = 0 THEN <<>>
    ELSE Head(collection)[2] \o AllFiles(Tail(collection))

CompressReadIgnore ==
    /\ pc = "c:read"
    /\ stylelintIgnoreCollection' = getStylelintIgnoreCollection(manifestContent)
    /\ todoLines' = Keys(stylelintIgnoreCollection')
    /\ todoFiles' = IF Len(todoLines') = 0 THEN <<>>
                    ELSE FilesOfLine(stylelintIgnoreCollection', Head(todoLines'))
    /\ batch' = AllFiles(stylelintIgnoreCollection')
    /\ pc' = "c:filterDisable"
    /\ UNCHANGED <<manifestName, manifestContent, manifestAtStart, fileContent,
                   lintWarnings, stylelintIgnoreFiles, stylelintResults,
                   inspected, annotated, failedAt, failures, errorLog>>
    /\ UNCHANGED writerVars

\* one turn of the inner loop of filterFilesWithDisableComment; behind the last
\* file of a line, the line is deleted when no file of it is left
CompressFilterDisableFile ==
    /\ pc = "c:filterDisable"
    /\ Len(todoLines) > 0
    /\ LET line == Head(todoLines)
           file == Head(todoFiles)
       IN  \E ok \in BOOLEAN :
            IF ok
            THEN LET files == IF SkipFile(fileContent[file])
                              THEN SetDelete(FilesOfLine(stylelintIgnoreCollection, line), JsString(file))
                              ELSE FilesOfLine(stylelintIgnoreCollection, line)
                     last  == Len(todoFiles) = 1
                     coll1 == MapSet(stylelintIgnoreCollection, line, files)
                     coll2 == IF last /\ Len(files) = 0 THEN MapDelete(coll1, line) ELSE coll1
                 IN  /\ stylelintIgnoreCollection' = coll2
                     /\ inspected' = inspected \cup {file}
                     /\ todoLines' = IF last THEN Tail(todoLines) ELSE todoLines
                     /\ todoFiles' = IF ~last THEN Tail(todoFiles)
                                     ELSE IF Len(todoLines) > 1
                                          THEN FilesOfLine(coll2, todoLines[2])
                                          ELSE <<>>
                     /\ UNCHANGED <<pc, failedAt, failures, errorLog>>
            ELSE /\ failedAt' = <<"filterFilesWithDisableComment", file>>
                 /\ failures' = failures \cup {"read"}
                 /\ errorLog' = errorLog \cup {"filterFilesWithDisableComment"}
                 /\ todoLines' = <<>>
                 /\ todoFiles' = <<>>
                 /\ UNCHANGED <<pc, stylelintIgnoreCollection, inspected>>
    /\ UNCHANGED <<manifestName, manifestContent, manifestAtStart, fileContent,
                   lintWarnings, stylelintIgnoreFiles, stylelintResults, batch,
                   annotated>>
    /\ UNCHANGED writerVars

CompressFilterDisableEnd ==
    /\ pc = "c:filterDisable"
    /\ Len(todoLines) = 0
    /\ todoLines' = Keys(stylelintIgnoreCollection)
    /\ todoFiles' = <<>>
    /\ pc' = "c:filterErrors"
    /\ UNCHANGED <<manifestName, manifestContent, manifestAtStart, fileContent,
                   lintWarnings, stylelintIgnoreCollection, stylelintIgnoreFiles,
                   stylelintResults, batch, inspected, annotated, failedAt,
                   failures, errorLog>>
    /\ UNCHANGED writerVars

\* filterFilesWithoutErrors: fs.rename('.stylelintignore', 'hash')
CompressQueryRename ==
    /\ pc = "c:filterErrors"
    /\ Len(todoLines) > 0
    /\ manifestName' = "hash"
    /\ pc' = "c:lint"
    /\ UNCHANGED <<manifestContent, manifestAtStart, fileContent, lintWarnings,
                   stylelintIgnoreCollection, stylelintIgnoreFiles,
                   stylelintResults, todoLines, todoFiles, batch, inspected,
                   annotated, failedAt, failures, errorLog>>
    /\ UNCHANGED writerVars

\* stylelint.lint answers
CompressQueryLint ==
    /\ pc = "c:lint"
    /\ stylelintResults' = Lint(FilesOfLine(stylelintIgnoreCollection, Head(todoLines)))
    /\ pc' = "c:restore"
    /\ UNCHANGED <<manifestName, manifestContent, manifestAtStart, fileContent,
                   lintWarnings, stylelintIgnoreCollection, stylelintIgnoreFiles,
                   todoLines, todoFiles, batch, inspected, annotated, failedAt,
                   failures, errorLog>>
    /\ UNCHANGED writerVars

\* stylelint.lint throws: the catch block renames the manifest back and logs
CompressQueryLintFails ==
    /\ pc = "c:lint"
    /\ manifestName' = ".stylelintignore"
    /\ failures' = failures \cup {"lint"}
    /\ errorLog' = errorLog \cup {"filterFilesWithoutErrors"}
    /\ todoLines' = <<>>
    /\ pc' = "c:write"
    /\ UNCHANGED <<manifestContent, manifestAtStart, fileContent, lintWarnings,
                   stylelintIgnoreCollection, stylelintIgnoreFiles,
                   stylelintResults, todoFiles, batch, inspected, annotated,
                   failedAt>>
    /\ UNCHANGED writerVars

\* fs.rename('hash', '.stylelintignore'), then the loop over the results
CompressQueryRestore ==
    /\ pc = "c:restore"
    /\ manifestName' = ".stylelintignore"
    /\ LET line  == Head(todoLines)
           files == DeleteFilesWithoutErrors(
                        FilesOfLine(stylelintIgnoreCollection, line), stylelintResults)
           coll1 == MapSet(stylelintIgnoreCollection, line, files)
       IN  stylelintIgnoreCollection' =
               IF Len(files) = 0 THEN MapDelete(coll1, line) ELSE coll1
    /\ todoLines' = Tail(todoLines)
    /\ pc' = "c:filterErrors"
    /\ UNCHANGED <<manifestContent, manifestAtStart, fileContent, lintWarnings,
                   stylelintIgnoreFiles, stylelintResults, todoFiles, batch,
                   inspected, annotated, failedAt, failures, errorLog>>
    /\ UNCHANGED writerVars

CompressFilterErrorsEnd ==
    /\ pc = "c:filterErrors"
    /\ Len(todoLines) = 0
    /\ pc' = "c:write"
    /\ UNCHANGED <<manifestName, manifestContent, manifestAtStart, fileContent,
                   lintWarnings, stylelintIgnoreCollection, stylelintIgnoreFiles,
                   stylelintResults, todoLines, todoFiles, batch, inspected,
                   annotated, failedAt, failures, errorLog>>
    /\ UNCHANGED writerVars

\* writeNewStylelintIgnore, then the closing determinateSizeAndLengthFile
CompressWrite ==
    /\ pc = "c:write"
    /\ \E ok \in BOOLEAN :
        IF ok
        THEN /\ manifestContent' = NewStylelintIgnoreContent(stylelintIgnoreCollection)
             /\ UNCHANGED <<failures, errorLog>>
        ELSE /\ failures' = failures \cup {"write"}
             /\ errorLog' = errorLog \cup {"writeNewStylelintIgnore"}
             /\ UNCHANGED manifestContent
    /\ pc' = "done"
    /\ UNCHANGED <<manifestName, manifestAtStart, fileContent, lintWarnings,
                   stylelintIgnoreCollection, stylelintIgnoreFiles,
                   stylelintResults, todoLines, todoFiles, batch, inspected,
                   annotated, failedAt>>
    /\ UNCHANGED writerVars

NextCompress ==
    \/ CompressMeasure
    \/ CompressReadConfig
    \/ CompressReadIgnore
    \/ CompressFilterDisableFile
    \/ CompressFilterDisableEnd
    \/ CompressQueryRename
    \/ CompressQueryLint
    \/ CompressQueryLintFails
    \/ CompressQueryRestore
    \/ CompressFilterErrorsEnd
    \/ CompressWrite

SpecCompress == InitCompress /\ [][NextCompress]_vars

----------------------------------------------------------------------------
\* Manifest Eliminator (deleteStylelintIgnore.js)

\* the for-of loop over the sorted entries, from entry i on
RECURSIVE InsertComments(_, _, _, _, _)
InsertComments(buffer, entries, i, counter, block) ==
    IF i > Len(entries) THEN buffer
    ELSE IF block
         THEN InsertComments(InsertBlockComments(buffer, entries[i], counter),
                             entries, i + 1, counter + 2, block)
         ELSE InsertComments(InsertNextLineComment(buffer, entries[i], counter),
                             entries, i + 1, counter + 1, block)

\* the body of the loop over the lint results, for one errored file
AnnotatedText(text, warnings, block) ==
    LET collection == helperCollectionFilesErrorsFromWarningsArray(warnings)
        entries    == helperSortedEntiresFromCollectionFilesErrors(collection)
    IN  helperWriteSourceFile(
            InsertComments(helperReadSourceFile(text), entries, 1, 0, block))

\* the string '' handed to helperWriteSourceFile, which writes a string as it is
EmptyString == <<>>

Sources(results) == [i \in DOMAIN results |-> results[i].source]

InitDelete == InitScript /\ pc = "d:config"

\* getStylelintConfigContent: a failure is logged and the script goes on
DeleteReadConfig ==
    /\ pc = "d:config"
    /\ \E ok \in BOOLEAN :
        IF ok THEN UNCHANGED <<failures, errorLog>>
        ELSE /\ failures' = failures \cup {"config"}
             /\ errorLog' = errorLog \cup {"getStylelintConfigContent"}
    /\ pc' = "d:read"
    /\ UNCHANGED <<manifestName, manifestContent, manifestAtStart, fileContent,
                   lintWarnings, stylelintIgnoreCollection, stylelintIgnoreFiles,
                   stylelintResults, todoLines, todoFiles, batch, inspected,
                   annotated, failedAt>>
    /\ UNCHANGED writerVars

DeleteReadIgnore ==
    /\ pc = "d:read"
    /\ IF manifestName = ".stylelintignore"
       THEN /\ stylelintIgnoreFiles' = getStylelintIgnoreFiles(manifestContent)
            /\ UNCHANGED <<failures, errorLog>>
       ELSE /\ failures' = failures \cup {"manifest"}
            /\ errorLog' = errorLog \cup {"getStylelintIgnoreContent"}
            /\ UNCHANGED stylelintIgnoreFiles
    /\ pc' = "d:before:rename"
    /\ UNCHANGED <<manifestName, manifestContent, manifestAtStart, fileContent,
                   lintWarnings, stylelintIgnoreCollection, stylelintResults,
                   todoLines, todoFiles, batch, inspected, annotated, failedAt>>
    /\ UNCHANGED writerVars

\* getStylelintCountErrors: fs.rename('.stylelintignore', 'hash'); nothing
\* catches a failed rename
CountRename ==
    /\ pc \in {"d:before:rename", "d:after:rename"}
    /\ IF manifestName = ".stylelintignore"
       THEN /\ manifestName' = "hash"
            /\ pc' = IF pc = "d:before:rename" THEN "d:before:lint" ELSE "d:after:lint"
            /\ UNCHANGED failures
       ELSE /\ failures' = failures \cup {"rename"}
            /\ pc' = "crashed"
            /\ UNCHANGED manifestName
    /\ UNCHANGED <<manifestContent, manifestAtStart, fileContent, lintWarnings,
                   stylelintIgnoreCollection, stylelintIgnoreFiles,
                   stylelintResults, todoLines, todoFiles, batch, inspected,
                   annotated, failedAt, errorLog>>
    /\ UNCHANGED writerVars

\* getStylelintCountErrors: stylelint.lint answers
CountLint ==
    /\ pc \in {"d:before:lint", "d:after:lint"}
    /\ stylelintResults' = Lint(stylelintIgnoreFiles)
    /\ pc' = IF pc = "d:before:lint" THEN "d:before:restore" ELSE "d:after:restore"
    /\ UNCHANGED <<manifestName, manifestContent, manifestAtStart, fileContent,
                   lintWarnings, stylelintIgnoreCollection, stylelintIgnoreFiles,
                   todoLines, todoFiles, batch, inspected, annotated, failedAt,
                   failures, errorLog>>
    /\ UNCHANGED writerVars

\* getStylelintCountErrors: stylelint.lint throws; nothing catches it, the
\* second rename is not reached and the script ends
CountLintFails ==
    /\ pc \in {"d:before:lint", "d:after:lint"}
    /\ failures' = failures \cup {"lint"}
    /\ pc' = "crashed"
    /\ UNCHANGED <<manifestName, manifestContent, manifestAtStart, fileContent,
                   lintWarnings, stylelintIgnoreCollection, stylelintIgnoreFiles,
                   stylelintResults, todoLines, todoFiles, batch, inspected,
                   annotated, failedAt, errorLog>>
    /\ UNCHANGED writerVars

\* getStylelintCountErrors: fs.rename('hash', '.stylelintignore') and the count
CountRestore ==
    /\ pc \in {"d:before:restore", "d:after:restore"}
    /\ manifestName' = ".stylelintignore"
    /\ IF pc = "d:before:restore"
       THEN /\ pc' = "d:filterDisable"
            /\ todoFiles' = stylelintIgnoreFiles
            /\ batch' = stylelintIgnoreFiles
       ELSE /\ pc' = "done"
            /\ UNCHANGED <<todoFiles, batch>>
    /\ UNCHANGED <<manifestContent, manifestAtStart, fileContent, lintWarnings,
                   stylelintIgnoreCollection, stylelintIgnoreFiles,
                   stylelintResults, todoLines, inspected, annotated, failedAt,
                   failures, errorLog>>
    /\ UNCHANGED writerVars

\* one turn of the loop of filterFilesWithDisableComment; a failed read ends
\* the loop in the catch block
DeleteFilterDisableFile ==
    /\ pc = "d:filterDisable"
    /\ Len(todoFiles) > 0
    /\ LET file == Head(todoFiles)
       IN  \E ok \in BOOLEAN :
            IF ok
            THEN /\ stylelintIgnoreFiles' =
                        IF SkipFile(fileContent[file])
                        THEN SetDelete(stylelintIgnoreFiles, JsString(file))
                        ELSE stylelintIgnoreFiles
                 /\ inspected' = inspected \cup {file}
                 /\ todoFiles' = Tail(todoFiles)
                 /\ UNCHANGED <<failedAt, failures, errorLog>>
            ELSE /\ failedAt' = <<"filterFilesWithDisableComment", file>>
                 /\ failures' = failures \cup {"read"}
                 /\ errorLog' = errorLog \cup {"filterFilesWithDisableComment"}
                 /\ todoFiles' = <<>>
                 /\ UNCHANGED <<stylelintIgnoreFiles, inspected>>
    /\ UNCHANGED <<pc, manifestName, manifestContent, manifestAtStart, fileContent,
                   lintWarnings, stylelintIgnoreCollection, stylelintResults,
                   todoLines, batch, annotated>>
    /\ UNCHANGED writerVars

DeleteFilterDisableEnd ==
    /\ pc = "d:filterDisable"
    /\ Len(todoFiles) = 0
    /\ pc' = "d:add:rename"
    /\ UNCHANGED <<manifestName, manifestContent, manifestAtStart, fileContent,
                   lintWarnings, stylelintIgnoreCollection, stylelintIgnoreFiles,
                   stylelintResults, todoLines, todoFiles, batch, inspected,
                   annotated, failedAt, failures, errorLog>>
    /\ UNCHANGED writerVars

\* addingCommentsWithStylelintErrors: fs.rename('.stylelintignore', 'hash')
AddRename ==
    /\ pc = "d:add:rename"
    /\ manifestName' = "hash"
    /\ pc' = "d:add:lint"
    /\ UNCHANGED <<manifestContent, manifestAtStart, fileContent, lintWarnings,
                   stylelintIgnoreCollection, stylelintIgnoreFiles,
                   stylelintResults, todoLines, todoFiles, batch, inspected,
                   annotated, failedAt, failures, errorLog>>
    /\ UNCHANGED writerVars

AddLint ==
    /\ pc = "d:add:lint"
    /\ stylelintResults' = Lint(stylelintIgnoreFiles)
    /\ pc' = "d:add:restore"
    /\ UNCHANGED <<manifestName, manifestContent, manifestAtStart, fileContent,
                   lintWarnings, stylelintIgnoreCollection, stylelintIgnoreFiles,
                   todoLines, todoFiles, batch, inspected, annotated, failedAt,
                   failures, errorLog>>
    /\ UNCHANGED writerVars

\* stylelint.lint throws: the catch block renames the manifest back and logs
AddLintFails ==
    /\ pc = "d:add:lint"
    /\ manifestName' = ".stylelintignore"
    /\ failures' = failures \cup {"lint"}
    /\ errorLog' = errorLog \cup {"addingCommentsWithStylelintErrors"}
    /\ pc' = "d:after:rename"
    /\ UNCHANGED <<manifestContent, manifestAtStart, fileContent, lintWarnings,
                   stylelintIgnoreCollection, stylelintIgnoreFiles,
                   stylelintResults, todoLines, todoFiles, batch, inspected,
                   annotated, failedAt>>
    /\ UNCHANGED writerVars

AddRestore ==
    /\ pc = "d:add:restore"
    /\ manifestName' = ".stylelintignore"
    /\ todoFiles' = stylelintResults
    /\ batch' = Sources(stylelintResults)
    /\ pc' = "d:add:loop"
    /\ UNCHANGED <<manifestContent, manifestAtStart, fileContent, lintWarnings,
                   stylelintIgnoreCollection, stylelintIgnoreFiles,
                   stylelintResults, todoLines, inspected, annotated, failedAt,
                   failures, errorLog>>
    /\ UNCHANGED writerVars

\* a result that is not errored: continue
AddSkipFile ==
    /\ pc = "d:add:loop"
    /\ Len(todoFiles) > 0
    /\ ~Head(todoFiles).errored
    /\ todoFiles' = Tail(todoFiles)
    /\ UNCHANGED <<pc, manifestName, manifestContent, manifestAtStart, fileContent,
                   lintWarnings, stylelintIgnoreCollection, stylelintIgnoreFiles,
                   stylelintResults, todoLines, batch, inspected, annotated,
                   failedAt, failures, errorLog>>
    /\ UNCHANGED writerVars

\* the catch block of addingCommentsWithStylelintErrors when a read or write
\* of the loop throws: it first renames 'hash', which is not there any more,
\* so the rename throws in turn, console.error is not reached and the script ends
AddLoopCatch(file) ==
    /\ failedAt' = <<"addingCommentsWithStylelintErrors", file>>
    /\ failures' = failures \cup {"io"}
    /\ IF manifestName = "hash"
       THEN /\ manifestName' = ".stylelintignore"
            /\ errorLog' = errorLog \cup {"addingCommentsWithStylelintErrors"}
            /\ pc' = "d:after:rename"
       ELSE /\ pc' = "crashed"
            /\ UNCHANGED <<manifestName, errorLog>>

\* an errored result: the file is read, annotated and written
AddAnnotateFile ==
    /\ pc = "d:add:loop"
    /\ Len(todoFiles) > 0
    /\ Head(todoFiles).errored
    /\ LET file == Head(todoFiles)
       IN  \E ok \in BOOLEAN :
            IF ok
            THEN /\ fileContent' = [fileContent EXCEPT ![file.source] =
                        AnnotatedText(fileContent[file.source], file.warnings, TRUE)]
                 /\ annotated' = annotated \cup {file.source}
                 /\ pc' = "d:add:truncate"
                 /\ UNCHANGED <<manifestName, failedAt, failures, errorLog>>
            ELSE /\ AddLoopCatch(file.source)
                 /\ UNCHANGED <<fileContent, annotated>>
    /\ UNCHANGED <<manifestContent, manifestAtStart, lintWarnings,
                   stylelintIgnoreCollection, stylelintIgnoreFiles,
                   stylelintResults, todoLines, todoFiles, batch, inspected>>
    /\ UNCHANGED writerVars

\* helperWriteSourceFile(stylelintIgnoreFilePath, '') behind every written file
AddTruncateManifest ==
    /\ pc = "d:add:truncate"
    /\ \E ok \in BOOLEAN :
        IF ok
        THEN /\ manifestContent' = EmptyString
             /\ todoFiles' = Tail(todoFiles)
             /\ pc' = "d:add:loop"
             /\ UNCHANGED <<manifestName, failedAt, failures, errorLog>>
        ELSE /\ AddLoopCatch(Head(todoFiles).source)
             /\ UNCHANGED <<manifestContent, todoFiles>>
    /\ UNCHANGED <<manifestAtStart, fileContent, lintWarnings,
                   stylelintIgnoreCollection, stylelintIgnoreFiles,
                   stylelintResults, todoLines, batch, inspected, annotated>>
    /\ UNCHANGED writerVars

AddLoopEnd ==
    /\ pc = "d:add:loop"
    /\ Len(todoFiles) = 0
    /\ pc' = "d:after:rename"
    /\ UNCHANGED <<manifestName, manifestContent, manifestAtStart, fileContent,
                   lintWarnings, stylelintIgnoreCollection, stylelintIgnoreFiles,
                   stylelintResults, todoLines, todoFiles, batch, inspected,
                   annotated, failedAt, failures, errorLog>>
    /\ UNCHANGED writerVars

NextDelete ==
    \/ DeleteReadConfig
    \/ DeleteReadIgnore
    \/ CountRename
    \/ CountLint
    \/ CountLintFails
    \/ CountRestore
    \/ DeleteFilterDisableFile
    \/ DeleteFilterDisableEnd
    \/ AddRename
    \/ AddLint
    \/ AddLintFails
    \/ AddRestore
    \/ AddSkipFile
    \/ AddAnnotateFile
    \/ AddTruncateManifest
    \/ AddLoopEnd

SpecDelete == InitDelete /\ [][NextDelete]_vars

----------------------------------------------------------------------------
\* Properties of the Planner and the Writer (of SpecWriter)

Planned == wpc \in {"insert", "written"}

ErrorWarnings == {i \in DOMAIN warningsArray : warningsArray[i].severity = "error"}

PlanPair(e) == <<KeyStartLine(e[1]), KeyEndLine(e[1])>>

RulesAt(pair) ==
    {warningsArray[i].rule : i \in {j \in ErrorWarnings :
        <<warningsArray[j].line, warningsArray[j].endLine>> = pair}}

\* C8: the plan has exactly one entry per distinct (line, endLine) pair of the
\* error-severity warnings, and the rule set of an entry is exactly the set of
\* rules of the error-severity warnings with that pair: non-empty, without
\* duplicates; a warning of another severity adds no entry and no rule.
PlanGroupsErrorsByRange ==
    Planned =>
        LET plan == sortedEntriesFilesErrors
        IN  /\ {PlanPair(plan[i]) : i \in DOMAIN plan} =
                   {<<warningsArray[j].line, warningsArray[j].endLine>> : j \in ErrorWarnings}
            /\ \A i, j \in DOMAIN plan : PlanPair(plan[i]) = PlanPair(plan[j]) => i = j
            /\ \A i \in DOMAIN plan :
                   /\ Range(plan[i][2]) = RulesAt(PlanPair(plan[i]))
                   /\ Len(plan[i][2]) = Cardinality(Range(plan[i][2]))
                   /\ Len(plan[i][2]) > 0

\* two error warnings with one range and one rule collapse into one entry
\* with one rule, next to no entry for a warning of severity "warning"
PlanCollapsedDuplicate ==
    /\ Planned
    /\ Len(warningsArray) = 2
    /\ Len(sortedEntriesFilesErrors) = 1
    /\ \/ /\ ErrorWarnings = {1, 2}
          /\ Len(sortedEntriesFilesErrors[1][2]) = 1
       \/ /\ ErrorWarnings = {1}
          /\ warningsArray[2].line = warningsArray[1].line
          /\ warningsArray[2].endLine = warningsArray[1].endLine
          /\ warningsArray[2].rule # warningsArray[1].rule

\* C9 as stated: the start lines strictly increase along the plan.
PlanStartLinesStrictlyIncrease ==
    Planned =>
        \A i, j \in DOMAIN sortedEntriesFilesErrors :
            i < j => PlanPair(sortedEntriesFilesErrors[i])[1]
                       < PlanPair(sortedEntriesFilesErrors[j])[1]

\* C9 amended: the plan is ordered by ascending start line, and entries that
\* share a start line (their end lines differ) keep the order in which their
\* ranges first occur among the warnings.
PlanStartLinesAscend ==
    Planned =>
        LET plan == sortedEntriesFilesErrors
            FirstSeen(e) == CHOOSE k \in DOMAIN collectionFilesErrors :
                                collectionFilesErrors[k] = e
        IN  /\ Range(plan) = Range(collectionFilesErrors)
            /\ Len(plan) = Len(collectionFilesErrors)
            /\ \A i, j \in DOMAIN plan :
                   i < j => /\ PlanPair(plan[i])[1] <= PlanPair(plan[j])[1]
                            /\ PlanPair(plan[i])[1] = PlanPair(plan[j])[1]
                                   => FirstSeen(plan[i]) < FirstSeen(plan[j])

\* the sort has moved an entry in front of one reported before it
PlanReordered ==
    /\ Planned
    /\ Len(sortedEntriesFilesErrors) = 2
    /\ sortedEntriesFilesErrors # collectionFilesErrors

IsOriginal(line) == Len(line) > 0 /\ line[1] = "L"

\* number of original lines in front of position p of the buffer
GapOf(buffer, p) == Cardinality({q \in 1..(p - 1) : IsOriginal(buffer[q])})

CommentsIn(buffer, gap, c) ==
    Cardinality({p \in DOMAIN buffer :
        ~IsOriginal(buffer[p]) /\ buffer[p] = c /\ GapOf(buffer, p) = gap})

\* C3: in block mode, once every plan entry is processed and the file is
\* written, the disable comment of each entry sits between original lines
\* startLine-1 and startLine and its enable comment between original lines
\* endLine and endLine+1: every gap between two original lines holds exactly
\* the comments of the entries that start right after it or end right before it.
BlockCommentsBracketRanges ==
    (wpc = "written" /\ useStylelintDisableComments) =>
        LET buffer == Split(fileText, NL)
            plan   == sortedEntriesFilesErrors
            Dis(i) == helperCommentDisableFromArrayRules(plan[i][2], "disable")
            En(i)  == helperCommentDisableFromArrayRules(plan[i][2], "enable")
            Cs     == {Dis(i) : i \in DOMAIN plan} \cup {En(i) : i \in DOMAIN plan}
                        \cup {buffer[p] : p \in {q \in DOMAIN buffer : ~IsOriginal(buffer[q])}}
        IN  /\ SelectSeq(buffer, IsOriginal) = OriginalLines
            /\ \A gap \in 0..MaxLines : \A c \in Cs :
                   CommentsIn(buffer, gap, c) =
                       Cardinality({i \in DOMAIN plan : Dis(i) = c /\ PlanPair(plan[i])[1] - 1 = gap})
                     + Cardinality({i \in DOMAIN plan : En(i) = c /\ PlanPair(plan[i])[2] = gap})

\* C4: in single-line mode, once every plan entry is processed and the file is
\* written, the disable-next-line comment of each entry is directly followed by
\* the line that was originally at its startLine, and the buffer has as many
\* lines as the original file plus one per plan entry.
NextLineCommentsPrecedeStartLine ==
    (wpc = "written" /\ ~useStylelintDisableComments) =>
        LET buffer == Split(fileText, NL)
            plan   == sortedEntriesFilesErrors
            Dnl(i) == helperCommentDisableFromArrayRules(plan[i][2], "disable-next-line")
        IN  /\ Len(buffer) = MaxLines + Len(plan)
            /\ \A i \in DOMAIN plan :
                   \E p \in 1..(Len(buffer) - 1) :
                       /\ buffer[p] = Dnl(i)
                       /\ buffer[p + 1] = SourceLine(PlanPair(plan[i])[1])

----------------------------------------------------------------------------
\* Properties of the scripts (of SpecCompress and SpecDelete)

Ended == pc \in {"done", "crashed"}

Errored(f) == HasError(lintWarnings[f])

IsPatternLine(line) == ~IsEmptyLine(line) /\ ~IsCommentLine(line)

ResolvedFiles(line) == Range(Glob(PatternOfLine(line)))

\* C1: no run ends with the manifest still named 'hash': every query that
\* renamed the manifest has renamed it back, whether the lint call returned
\* or failed.
ManifestNameRestored == Ended => manifestName # "hash"

\* C2: when the compactor has completed without a failure, every line of the
\* rewritten manifest resolves to at least one file the lint engine reports as
\* errored; a line whose files all lint clean is not in it.
CompactedLinesStillError ==
    (pc = "done" /\ failures = {}) =>
        \A line \in Range(ReadLines(manifestContent)) :
            \E f \in ResolvedFiles(line) : Errored(f)

PatternLinesAtStart == SelectSeq(ReadLines(manifestAtStart), IsPatternLine)

EveryEntryStillErrors ==
    \A line \in Range(PatternLinesAtStart) :
        /\ ResolvedFiles(line) # {}
        /\ \A f \in ResolvedFiles(line) :
               Errored(f) /\ ~SkipFile(fileContent[f])

\* C7 as stated: when every pattern entry of the manifest resolves to files
\* that all still have lint errors, the compactor writes back the sequence of
\* lines it has read (taken for a manifest that has a pattern entry, where
\* every entry resolves to a file and no file opens with a blanket disable).
CompactorRoundTrip ==
    (/\ pc = "done"
     /\ failures = {}
     /\ PatternLinesAtStart # <<>>
     /\ EveryEntryStillErrors)
        => ReadLines(manifestContent) = ReadLines(manifestAtStart)

RECURSIVE WithoutRepeats(_)
WithoutRepeats(lines) ==
    IF Len(lines) = 0 THEN <<>>
    ELSE LET front == WithoutRepeats(SubSeq(lines, 1, Len(lines) - 1))
             last  == lines[Len(lines)]
         IN  IF last \in Range(front) THEN front ELSE Append(front, last)

\* C7 amended: when every pattern entry of the manifest resolves to at least
\* one file, and all its files still have lint errors and none opens with a
\* blanket disable comment, the compactor writes back the pattern lines it has
\* read, in their order, each once and each ended by a newline: blank lines
\* and comment lines are left out, and so is every repetition of a line.
CompactorKeepsPatternLines ==
    (pc = "done" /\ failures = {} /\ EveryEntryStillErrors)
        => manifestContent = ManifestText(WithoutRepeats(PatternLinesAtStart))

\* a manifest of a comment line and a line whose files all error, compacted
\* to that one line
CompactedAroundComment ==
    /\ pc = "done"
    /\ failures = {}
    /\ EveryEntryStillErrors
    /\ Len(ReadLines(manifestAtStart)) = 2
    /\ IsCommentLine(ReadLines(manifestAtStart)[1])
    /\ ReadLines(manifestContent) = <<ReadLines(manifestAtStart)[2]>>

\* C5: when the eliminator has completed without a failure, the manifest is
\* empty (taken for a manifest that lists at least one style file).
EliminatorEmptiesManifest ==
    (pc = "done" /\ failures = {} /\ batch # <<>>) => manifestContent = <<>>

\* C6: when reading or writing one file fails in the disable-comment filter
\* or in the annotation loop, the error is logged and every other file of the
\* batch is still inspected by the filter, or annotated if it is errored.
PerFileFailureSkipsOnlyThatFile ==
    /\ (pc = "d:add:rename" /\ failedAt # <<>>
            /\ failedAt[1] = "filterFilesWithDisableComment") =>
           /\ failedAt[1] \in errorLog
           /\ \A f \in Range(batch) \ {failedAt[2]} : f \in inspected
    /\ (Ended /\ failedAt # <<>>
            /\ failedAt[1] = "addingCommentsWithStylelintErrors") =>
           /\ failedAt[1] \in errorLog
           /\ \A f \in Range(batch) \ {failedAt[2]} : Errored(f) => f \in annotated

\* C10: the manifest is empty only when every errored file that is still
\* ignored has been rewritten with its suppression comments.
ManifestEmptyOnlyWhenAllAnnotated ==
    manifestContent = <<>> =>
        \A f \in Range(stylelintIgnoreFiles) : Errored(f) => f \in annotated

====
